---- MODULE Spec2Model ----
(***************************************************************************)
(* Model of bibtex_scholar_checker.py (class GoogleScholarChecker).        *)
(*                                                                         *)
(* A Python str is a sequence of one-character strings.  A BibTeX entry   *)
(* (a Python dict) is a function whose DOMAIN is the set of keys present. *)
(***************************************************************************)
EXTENDS Integers, Sequences, FiniteSets, TLC

VARIABLES
    \* ---- direct calls of the pure methods (specification SpecQuery) ----
    fn,         \* which method is called: "clean_text" or "build_search_query"
    text,       \* argument of clean_text
    entry,      \* argument of build_search_query
    called,     \* FALSE before the call, TRUE once it has returned
    cleaned,    \* value returned by clean_text
    built,      \* value returned by build_search_query
    \* ---- one run of main() / check_bibtex_file (specification Spec) ----
    stdout_unicode, \* can sys.stdout encode non-ASCII characters
    delay_range,    \* self.delay_range
    output_file,    \* is an output file given (args.output)
    loaded,         \* did bibtexparser.load succeed
    entries,        \* bib_database.entries
    pc,             \* position in check_bibtex_file / main
    i,              \* loop index of enumerate(entries, 1)
    query,          \* local variable query
    response,       \* the response object of session.get, or NoResponse
    ret,            \* the tuple returned by search_google_scholar
    results,        \* local list results
    delays,         \* delays[k]: completed time.sleep calls for record k
    gets,           \* gets[k]: session.get calls issued for record k
    saved,          \* outcome of save_results
    summary         \* the counts print_summary prints

qvars == <<fn, text, entry, called, cleaned, built>>
rvars == <<stdout_unicode, delay_range, output_file, loaded, entries, pc, i, query,
           response, ret, results, delays, gets, saved, summary>>
vars == <<fn, text, entry, called, cleaned, built,
          stdout_unicode, delay_range, output_file, loaded, entries, pc, i, query,
          response, ret, results, delays, gets, saved, summary>>

----------------------------------------------------------------------------
(* Bounds of the model *)

\* longest token sequence the generated input strings are made of
MaxTokens == 3
\* most entries in the BibTeX file
MaxEntries == 2
\* most result blocks of one kind in a response body
MaxBlocks == 2

----------------------------------------------------------------------------
(* Python str operations *)

Space == {" ", "\t"}
Punct == {",", ".", "-", "!", ":", "\""}

\* \s of the re module
IsSpace(c) == c \in Space
\* \w of the re module: letters, digits and the underscore
IsWord(c) == c \notin Space /\ c \notin Punct

RECURSIVE Flatten(_)
Flatten(ss) == IF ss = <<>> THEN <<>> ELSE Head(ss) \o Flatten(Tail(ss))

\* sep.join(parts)
RECURSIVE Join(_, _)
Join(sep, parts) ==
    IF parts = <<>> THEN <<>>
    ELSE IF Len(parts) = 1 THEN parts[1]
    ELSE parts[1] \o sep \o Join(sep, Tail(parts))

\* s.strip()
RECURSIVE LStrip(_)
LStrip(s) == IF s # <<>> /\ IsSpace(Head(s)) THEN LStrip(Tail(s)) ELSE s
RECURSIVE RStrip(_)
RStrip(s) ==
    IF s # <<>> /\ IsSpace(s[Len(s)]) THEN RStrip(SubSeq(s, 1, Len(s) - 1)) ELSE s
Strip(s) == RStrip(LStrip(s))

\* s.find(sep) + 1: the first position where sep occurs in s, 0 if none
OccursAt(s, sep, k) ==
    /\ k + Len(sep) - 1 <= Len(s)
    /\ SubSeq(s, k, k + Len(sep) - 1) = sep
Find(s, sep) ==
    IF \E k \in 1..Len(s) : OccursAt(s, sep, k)
    THEN CHOOSE k \in 1..Len(s) :
            OccursAt(s, sep, k) /\ \A j \in 1..(k - 1) : ~OccursAt(s, sep, j)
    ELSE 0

\* s.split(sep), sep a non-empty string
RECURSIVE SplitSep(_, _)
SplitSep(s, sep) ==
    LET k == Find(s, sep)
    IN  IF k = 0 THEN <<s>>
        ELSE <<SubSeq(s, 1, k - 1)>> \o SplitSep(SubSeq(s, k + Len(sep), Len(s)), sep)

\* s.split(): split at runs of whitespace, no empty strings in the result
RECURSIVE SplitWS(_)
SplitWS(s) ==
    LET t == LStrip(s)
    IN  IF t = <<>> THEN <<>>
        ELSE LET n == IF \E k \in 1..Len(t) : IsSpace(t[k])
                      THEN (CHOOSE k \in 1..Len(t) :
                                IsSpace(t[k]) /\ \A j \in 1..(k - 1) : ~IsSpace(t[j])) - 1
                      ELSE Len(t)
             IN  <<SubSeq(t, 1, n)>> \o SplitWS(SubSeq(t, n + 1, Len(t)))

\* the value a failed list index leaves in place of a string
IndexError == <<"IndexError">>

\* parts[-1]
LastItem(parts) == IF parts = <<>> THEN IndexError ELSE parts[Len(parts)]

----------------------------------------------------------------------------
(* clean_text *)

\* a variant that deletes the special characters instead of blanking them
SubNonWordDeleting(s) ==
    LET Keep(c) == IsWord(c) \/ IsSpace(c) IN SelectSeq(s, Keep)

\* re.sub(r'[^\w\s]', ' ', text)
SubNonWord(s) == [k \in 1..Len(s) |-> IF IsWord(s[k]) \/ IsSpace(s[k]) THEN s[k] ELSE " "]

clean_text(s) ==
    IF s = <<>> THEN <<>>
    ELSE Strip(Join(<<" ">>, SplitWS(SubNonWord(s))))

----------------------------------------------------------------------------
(* build_search_query *)

Has(e, key) == key \in DOMAIN e

\* a variant without the "if name_parts else" guard of line 69
last_name_of_unguarded(author) ==
    LET first_author == Strip(author)
        name_parts == SplitSep(first_author, <<",">>)
    IN  IF Len(name_parts) > 1
        THEN Strip(name_parts[1])
        ELSE LastItem(SplitWS(first_author))

\* a variant that ignores the comma form "Last, First"
last_name_of_final_word(author) ==
    LET words == SplitWS(Strip(author))
    IN  IF words # <<>> THEN LastItem(words) ELSE <<>>

\* lines 62-69: the last name of one author string
last_name_of(author) ==
    LET first_author == Strip(author)
        name_parts == SplitSep(first_author, <<",">>)
    IN  IF Len(name_parts) > 1
        THEN Strip(name_parts[1])
        ELSE LET words == SplitWS(first_author)
             IN  IF words # <<>> THEN LastItem(words) ELSE <<>>

\* lines 54-56
title_parts(e) ==
    IF Has(e, "title") THEN << <<"\"">> \o clean_text(e["title"]) \o <<"\"">> >> ELSE <<>>

\* lines 59-72
author_parts(e) ==
    IF Has(e, "author")
    THEN LET authors == SplitSep(e["author"], <<" ", "a", "n", "d", " ">>)
             last_name == last_name_of(authors[1])
         IN  IF last_name # <<>>
             THEN << <<"a", "u", "t", "h", "o", "r", ":", "\"">> \o last_name \o <<"\"">> >>
             ELSE <<>>
    ELSE <<>>

\* lines 75-76
year_parts(e) == IF Has(e, "year") THEN <<e["year"]>> ELSE <<>>

build_search_query(e) ==
    LET query_parts == title_parts(e) \o author_parts(e) \o year_parts(e)
    IN  IF \E k \in 1..Len(query_parts) : Find(query_parts[k], IndexError) # 0
        THEN IndexError
        ELSE Join(<<" ">>, query_parts)

----------------------------------------------------------------------------
(* Inputs of the direct calls *)

\* a key that is not in the dict
Absent == <<"absent">>

\* the dict with the given values, a key left out where its value is Absent
EntryOf(id, title, author, year) ==
    LET val == [k \in {"ID", "title", "author", "year"} |->
                    CASE k = "ID" -> id [] k = "title" -> title
                      [] k = "author" -> author [] OTHER -> year]
    IN  [k \in {x \in DOMAIN val : val[x] # Absent} |-> val[k]]

Tokens == { <<"S">>, <<"J">>, <<"_">>, <<",">>, <<"-">>, <<" ">>, <<"\t">>,
            <<" ", "a", "n", "d", " ">> }

RECURSIVE TokenSeqs(_)
TokenSeqs(n) ==
    IF n = 0 THEN {<<>>}
    ELSE LET shorter == TokenSeqs(n - 1)
         IN  shorter \cup {<<t>> \o ts : t \in Tokens, ts \in {x \in shorter : Len(x) = n - 1}}

\* every string made of at most MaxTokens tokens
GenStrings == {Flatten(ts) : ts \in TokenSeqs(MaxTokens)}

Attention == <<"A", "t", "t", "e", "n", "t", "i", "o", "n", " ", "I", "s", " ", "A", "l", "l", " ", "Y", "o", "u", " ", "N", "e", "e", "d">>
VaswaniEtAl == <<"V", "a", "s", "w", "a", "n", "i", ",", " ", "A", ".", " ", "a", "n", "d", " ", "o", "t", "h", "e", "r", "s">>
Vaswani == <<"V", "a", "s", "w", "a", "n", "i">>
SmithJohn == <<"S", "m", "i", "t", "h", ",", " ", "J", "o", "h", "n">>
JohnSmith == <<"J", "o", "h", "n", " ", "S", "m", "i", "t", "h">>
Smith == <<"S", "m", "i", "t", "h">>
ABC == <<"A", " ", "a", "n", "d", " ", "B", " ", "a", "n", "d", " ", "C">>
Y2017 == <<"2", "0", "1", "7">>
AttentionQuery == <<"\"", "A", "t", "t", "e", "n", "t", "i", "o", "n", " ", "I", "s", " ", "A", "l", "l", " ", "Y", "o", "u", " ", "N", "e", "e", "d", "\"", " ", "a", "u", "t", "h", "o", "r", ":", "\"", "V", "a", "s", "w", "a", "n", "i", "\"", " ", "2", "0", "1", "7">>

FixedTitles == {Absent, Attention}
FixedAuthors == {Absent, VaswaniEtAl, SmithJohn, JohnSmith, ABC}
Years == {Absent, <<>>, Y2017}

QueryEntries ==
    {EntryOf(Absent, t, a, y) : t \in GenStrings, a \in {Absent, SmithJohn}, y \in Years}
    \cup {EntryOf(Absent, t, a, y) : t \in FixedTitles, a \in GenStrings, y \in Years}
    \cup {EntryOf(Absent, t, a, y) : t \in FixedTitles, a \in FixedAuthors, y \in Years}

NoEntry == EntryOf(Absent, Absent, Absent, Absent)
NotReturned == <<"not returned">>

----------------------------------------------------------------------------
(* search_google_scholar: the response and the returned tuple *)

Statuses == {200, 204, 429, 503}

\* what BeautifulSoup finds in a body: the number of div elements of class
\* "gs_r gs_or gs_scl", the number of class "gs_ri", whether a div holds the
\* phrase "did not match any articles"; parses is FALSE for content on which
\* the parser raises
Bodies ==
    [parses : {TRUE}, primary : 0..MaxBlocks, secondary : 0..MaxBlocks, no_results : BOOLEAN]
    \cup {[parses |-> FALSE, primary |-> 0, secondary |-> 0, no_results |-> FALSE]}

\* the bodies tried with a status other than 200: an empty page and a page
\* full of result blocks
ErrorBodies ==
    {b \in Bodies : b.parses /\ b.primary = b.secondary /\ ~b.no_results
                                /\ b.primary \in {0, MaxBlocks}}

Responses ==
    [status_code : {200}, content : Bodies]
    \cup [status_code : Statuses \ {200}, content : ErrorBodies]

NoResponse == [status_code |-> 0,
               content |-> [parses |-> FALSE, primary |-> 0, secondary |-> 0,
                            no_results |-> FALSE]]

Returned(success, num_results, error_msg) ==
    [success |-> success, num_results |-> num_results, error_msg |-> error_msg]

NoReturn == Returned(FALSE, 0, "not returned")

\* lines 107-108: find_all(primary) or find_all(secondary)
result_divs(content) ==
    IF content.primary # 0 THEN content.primary ELSE content.secondary

\* a variant that tests for status != 200 before it tests for 429
classify_response_429_late(r) ==
    IF r.status_code # 200 THEN Returned(FALSE, 0, "HTTP " \o ToString(r.status_code))
    ELSE IF ~r.content.parses THEN Returned(FALSE, 0, "Error: parser")
    ELSE IF r.content.no_results \/ result_divs(r.content) = 0 THEN Returned(TRUE, 0, "")
    ELSE Returned(TRUE, result_divs(r.content), "")

\* a variant that counts the primary marker only
classify_response_primary_only(r) ==
    IF r.status_code = 429 THEN Returned(FALSE, 0, "Rate limited by Google Scholar")
    ELSE IF r.status_code # 200 THEN Returned(FALSE, 0, "HTTP " \o ToString(r.status_code))
    ELSE IF ~r.content.parses THEN Returned(FALSE, 0, "Error: parser")
    ELSE IF r.content.no_results \/ r.content.primary = 0 THEN Returned(TRUE, 0, "")
    ELSE Returned(TRUE, r.content.primary, "")

\* lines 99-116, and line 121 for content the parser raises on
classify_response(r) ==
    IF r.status_code = 429 THEN Returned(FALSE, 0, "Rate limited by Google Scholar")
    ELSE IF r.status_code # 200 THEN Returned(FALSE, 0, "HTTP " \o ToString(r.status_code))
    ELSE IF ~r.content.parses THEN Returned(FALSE, 0, "Error: parser")
    ELSE IF r.content.no_results \/ result_divs(r.content) = 0 THEN Returned(TRUE, 0, "")
    ELSE Returned(TRUE, result_divs(r.content), "")

\* lines 118-119
request_exception(detail) == Returned(FALSE, 0, "Network error: " \o detail)
\* lines 120-121
other_exception(detail) == Returned(FALSE, 0, "Error: " \o detail)

\* the str(e) of the requests.RequestException that session.get raises
TransportFailures == {"timed out", "connection refused"}

----------------------------------------------------------------------------
(* check_bibtex_file, save_results, print_summary *)

\* defaults of --min-delay and --max-delay
DefaultMinDelay == 2
DefaultMaxDelay == 5

\* the delay ranges of the runs: the default one and one that reaches below 0
DelayRanges == {<<DefaultMinDelay, DefaultMaxDelay>>, <<-1, 0>>}

K1 == <<"k", "1">>
NoTitle == <<"N", "o", " ", "t", "i", "t", "l", "e">>

\* the entries a loaded file is made of
FileEntries ==
    { EntryOf(K1, Attention, VaswaniEtAl, Y2017),
      EntryOf(Absent, Absent, SmithJohn, <<>>) }

RECURSIVE EntryLists(_)
EntryLists(n) ==
    IF n = 0 THEN {<<>>}
    ELSE LET shorter == EntryLists(n - 1)
         IN  shorter \cup {Append(es, e) : es \in {x \in shorter : Len(x) = n - 1},
                                           e \in FileEntries}

\* line 149: entry.get('ID', f'entry_{i}')
entry_id_of(e, k) ==
    IF Has(e, "ID") THEN e["ID"] ELSE <<"e", "n", "t", "r", "y", "_", ToString(k)>>
\* line 150: entry.get('title', 'No title')
title_of(e) == IF Has(e, "title") THEN e["title"] ELSE NoTitle

\* a variant whose found ignores the number of results
make_result_found_is_success(e, k, q, r) ==
    [entry_id |-> entry_id_of(e, k), title |-> title_of(e), query |-> q,
     found |-> r.success,
     num_results |-> IF r.success THEN r.num_results ELSE 0,
     error |-> r.error_msg, success |-> r.success]

\* lines 162-170
make_result(e, k, q, r) ==
    [entry_id |-> entry_id_of(e, k), title |-> title_of(e), query |-> q,
     found |-> r.success /\ r.num_results > 0,
     num_results |-> IF r.success THEN r.num_results ELSE 0,
     error |-> r.error_msg, success |-> r.success]

\* lines 174-178, 148: after the status line the loop takes the next entry
after_status(r) == "loop"

\* a variant that issues the request without the delay
after_query_no_delay == "get"

\* lines 156-160, 91-95: the search starts with the delay
after_query == "sleep"

\* lines 175-176 print a check mark or a cross, line 178 prints ASCII only
status_line_is_ascii(r) == ~r.success

\* a variant that counts every result that is not found as an error
print_summary_errors_not_found(rs) ==
    LET IsFound(r) == r.found
        IsError(r) == ~r.found
        total == Len(rs)
        found == Cardinality({k \in 1..Len(rs) : IsFound(rs[k])})
        errors == Cardinality({k \in 1..Len(rs) : IsError(rs[k])})
    IN  [total |-> total, found |-> found, not_found |-> total - found - errors,
         errors |-> errors]

\* lines 217-227
print_summary(rs) ==
    LET IsFound(r) == r.found
        IsError(r) == ~r.success
        total == Len(rs)
        found == Cardinality({k \in 1..Len(rs) : IsFound(rs[k])})
        errors == Cardinality({k \in 1..Len(rs) : IsError(rs[k])})
    IN  [total |-> total, found |-> found, not_found |-> total - found - errors,
         errors |-> errors]

NoSummary == [total |-> -1, found |-> -1, not_found |-> -1, errors |-> -1]

QueryIdle ==
    /\ fn = "none" /\ text = <<>> /\ entry = NoEntry
    /\ called = FALSE /\ cleaned = NotReturned /\ built = NotReturned

\* main() up to the call of check_bibtex_file
Init ==
    /\ QueryIdle
    /\ stdout_unicode \in BOOLEAN
    /\ delay_range \in DelayRanges
    /\ output_file \in BOOLEAN
    /\ loaded = FALSE
    /\ entries = <<>>
    /\ pc = "load"
    /\ i = 0
    /\ query = <<>>
    /\ response = NoResponse
    /\ ret = NoReturn
    /\ results = <<>>
    /\ delays = <<>>
    /\ gets = <<>>
    /\ saved = "no"
    /\ summary = NoSummary

\* lines 134-146: the file loads
Load ==
    /\ pc = "load"
    /\ \E es \in EntryLists(MaxEntries) :
        /\ entries' = es
        /\ delays' = [k \in 1..Len(es) |-> 0]
        /\ gets' = [k \in 1..Len(es) |-> 0]
    /\ loaded' = TRUE
    /\ results' = <<>>
    /\ pc' = "loop"
    /\ UNCHANGED <<stdout_unicode, delay_range, output_file, i, query, response, ret,
                   saved, summary>>
    /\ UNCHANGED qvars

\* lines 139-141: the file does not load, return []
LoadFails ==
    /\ pc = "load"
    /\ results' = <<>>
    /\ pc' = "returned"
    /\ UNCHANGED <<stdout_unicode, delay_range, output_file, loaded, entries, i, query,
                   response, ret, delays, gets, saved, summary>>
    /\ UNCHANGED qvars

\* line 148: for i, entry in enumerate(entries, 1)
LoopNext ==
    /\ pc = "loop"
    /\ IF i < Len(entries)
       THEN i' = i + 1 /\ pc' = "build"
       ELSE i' = i /\ pc' = "save"
    /\ UNCHANGED <<stdout_unicode, delay_range, output_file, loaded, entries, query,
                   response, ret, results, delays, gets, saved, summary>>
    /\ UNCHANGED qvars

\* lines 149-157: the progress lines and the query
BuildQuery ==
    /\ pc = "build"
    /\ query' = build_search_query(entries[i])
    /\ pc' = after_query
    /\ UNCHANGED <<stdout_unicode, delay_range, output_file, loaded, entries, i,
                   response, ret, results, delays, gets, saved, summary>>
    /\ UNCHANGED qvars

\* lines 91-95: the delay; time.sleep raises ValueError on a negative one
Sleep ==
    /\ pc = "sleep"
    /\ \E delay \in delay_range[1]..delay_range[2] :
        IF delay >= 0
        THEN /\ delays' = [delays EXCEPT ![i] = @ + 1]
             /\ pc' = "get"
             /\ ret' = ret
        ELSE /\ delays' = delays
             /\ ret' = other_exception("sleep length must be non-negative")
             /\ pc' = "append"
    /\ UNCHANGED <<stdout_unicode, delay_range, output_file, loaded, entries, i, query,
                   response, results, gets, saved, summary>>
    /\ UNCHANGED qvars

\* line 97: the request is answered
Get ==
    /\ pc = "get"
    /\ gets' = [gets EXCEPT ![i] = @ + 1]
    /\ response' \in Responses
    /\ pc' = "classify"
    /\ UNCHANGED <<stdout_unicode, delay_range, output_file, loaded, entries, i, query,
                   ret, results, delays, saved, summary>>
    /\ UNCHANGED qvars

\* lines 97, 118-119: the request raises requests.RequestException
GetFails ==
    /\ pc = "get"
    /\ gets' = [gets EXCEPT ![i] = @ + 1]
    /\ \E detail \in TransportFailures : ret' = request_exception(detail)
    /\ pc' = "append"
    /\ UNCHANGED <<stdout_unicode, delay_range, output_file, loaded, entries, i, query,
                   response, results, delays, saved, summary>>
    /\ UNCHANGED qvars

\* lines 99-121: the response is classified and search_google_scholar returns
Classify ==
    /\ pc = "classify"
    /\ ret' = classify_response(response)
    /\ pc' = "append"
    /\ UNCHANGED <<stdout_unicode, delay_range, output_file, loaded, entries, i, query,
                   response, results, delays, gets, saved, summary>>
    /\ UNCHANGED qvars

\* lines 160-172: the result is built and appended
AppendResult ==
    /\ pc = "append"
    /\ results' = Append(results, make_result(entries[i], i, query, ret))
    /\ response' = NoResponse
    /\ pc' = "status"
    /\ UNCHANGED <<stdout_unicode, delay_range, output_file, loaded, entries, i, query,
                   ret, delays, gets, saved, summary>>
    /\ UNCHANGED qvars

\* lines 174-178: the status line is printed
PrintStatus ==
    /\ pc = "status"
    /\ stdout_unicode \/ status_line_is_ascii(ret)
    /\ pc' = after_status(ret)
    /\ UNCHANGED <<stdout_unicode, delay_range, output_file, loaded, entries, i, query,
                   response, ret, results, delays, gets, saved, summary>>
    /\ UNCHANGED qvars

\* lines 175-176: print raises UnicodeEncodeError, which nothing catches
PrintStatusRaises ==
    /\ pc = "status"
    /\ ~(stdout_unicode \/ status_line_is_ascii(ret))
    /\ pc' = "raised"
    /\ UNCHANGED <<stdout_unicode, delay_range, output_file, loaded, entries, i, query,
                   response, ret, results, delays, gets, saved, summary>>
    /\ UNCHANGED qvars

\* lines 181-184, 186-213: the report is written, or writing fails and is
\* reported; results is returned either way
SaveAndReturn ==
    /\ pc = "save"
    /\ IF output_file THEN saved' \in {"written", "failed"} ELSE saved' = saved
    /\ pc' = "returned"
    /\ UNCHANGED <<stdout_unicode, delay_range, output_file, loaded, entries, i, query,
                   response, ret, results, delays, gets, summary>>
    /\ UNCHANGED qvars

\* line 264, lines 215-234
PrintSummary ==
    /\ pc = "returned"
    /\ summary' = print_summary(results)
    /\ pc' = "done"
    /\ UNCHANGED <<stdout_unicode, delay_range, output_file, loaded, entries, i, query,
                   response, ret, results, delays, gets, saved>>
    /\ UNCHANGED qvars

Next ==
    \/ Load
    \/ LoadFails
    \/ LoopNext
    \/ BuildQuery
    \/ Sleep
    \/ Get
    \/ GetFails
    \/ Classify
    \/ AppendResult
    \/ PrintStatus
    \/ PrintStatusRaises
    \/ SaveAndReturn
    \/ PrintSummary

Spec == Init /\ [][Next]_vars

----------------------------------------------------------------------------
(* Specification SpecQuery: one call of clean_text or of build_search_query *)

RunIdle ==
    /\ stdout_unicode = TRUE /\ delay_range = <<2, 5>> /\ output_file = FALSE
    /\ loaded = FALSE /\ entries = <<>> /\ pc = "idle" /\ i = 0 /\ query = <<>>
    /\ response = NoResponse /\ ret = NoReturn /\ results = <<>>
    /\ delays = <<>> /\ gets = <<>> /\ saved = "no" /\ summary = NoSummary

InitQuery ==
    /\ \/ fn = "clean_text" /\ text \in GenStrings /\ entry = NoEntry
       \/ fn = "build_search_query" /\ text = <<>> /\ entry \in QueryEntries
    /\ called = FALSE
    /\ cleaned = NotReturned
    /\ built = NotReturned
    /\ RunIdle

CallCleanText ==
    /\ fn = "clean_text" /\ ~called
    /\ cleaned' = clean_text(text)
    /\ called' = TRUE
    /\ UNCHANGED <<fn, text, entry, built>>
    /\ UNCHANGED rvars

CallBuildSearchQuery ==
    /\ fn = "build_search_query" /\ ~called
    /\ built' = build_search_query(entry)
    /\ called' = TRUE
    /\ UNCHANGED <<fn, text, entry, cleaned>>
    /\ UNCHANGED rvars

NextQuery == CallCleanText \/ CallBuildSearchQuery

SpecQuery == InitQuery /\ [][NextQuery]_vars

----------------------------------------------------------------------------
(* Statements about clean_text and build_search_query, written without the *)
(* operators that model them                                               *)

IsAlnum(c) == IsWord(c) /\ c # "_"

\* s with its leading, trailing and repeated whitespace dropped and every
\* remaining whitespace character turned into one space
RECURSIVE SqueezeFrom(_, _)
SqueezeFrom(s, k) ==
    IF k > Len(s) THEN <<>>
    ELSE IF ~IsSpace(s[k]) THEN <<s[k]>> \o SqueezeFrom(s, k + 1)
    ELSE IF /\ k > 1
            /\ ~IsSpace(s[k - 1])
            /\ \E j \in (k + 1)..Len(s) : ~IsSpace(s[j])
         THEN <<" ">> \o SqueezeFrom(s, k + 1)
         ELSE SqueezeFrom(s, k + 1)
Squeeze(s) == SqueezeFrom(s, 1)

\* the normal form of the code: special characters become spaces
Blanked(s) == [k \in DOMAIN s |-> IF s[k] \in Punct THEN " " ELSE s[k]]
Normalized(s) == Squeeze(Blanked(s))

\* the normal form of the spec: special characters are removed
StrippedForm(s) ==
    LET Keep(c) == IsAlnum(c) \/ IsSpace(c) IN Squeeze(SelectSeq(s, Keep))

SingleSpaced(s) ==
    /\ s # <<>> => s[1] # " " /\ s[Len(s)] # " "
    /\ \A k \in 1..(Len(s) - 1) : ~(s[k] = " " /\ s[k + 1] = " ")

Quoted(s) == <<"\"">> \o s \o <<"\"">>

\* the first author of an " and "-separated list, trimmed
FirstAuthor(a) ==
    LET k == Find(a, <<" ", "a", "n", "d", " ">>)
    IN  Strip(IF k = 0 THEN a ELSE SubSeq(a, 1, k - 1))

\* the last name the spec describes for one trimmed author
ExpectedLastName(f) ==
    IF \E k \in 1..Len(f) : f[k] = ","
    THEN LET c == CHOOSE k \in 1..Len(f) : f[k] = "," /\ \A j \in 1..(k - 1) : f[j] # ","
         IN  Strip(SubSeq(f, 1, c - 1))
    ELSE LET start == CHOOSE k \in 1..(Len(f) + 1) :
                        /\ \A j \in k..Len(f) : ~IsSpace(f[j])
                        /\ k > 1 => IsSpace(f[k - 1])
         IN  SubSeq(f, start, Len(f))

ExpectedParts(e) ==
    (IF Has(e, "title") THEN <<Quoted(Normalized(e["title"]))>> ELSE <<>>)
    \o (IF Has(e, "author") /\ ExpectedLastName(FirstAuthor(e["author"])) # <<>>
        THEN << <<"a", "u", "t", "h", "o", "r", ":">>
                \o Quoted(ExpectedLastName(FirstAuthor(e["author"]))) >>
        ELSE <<>>)
    \o (IF Has(e, "year") THEN <<e["year"]>> ELSE <<>>)

BuiltFor(e) == fn = "build_search_query" /\ called /\ entry = e
Built == fn = "build_search_query" /\ called
Cleaned == fn = "clean_text" /\ called

\* no field is usable: a title that is present normalizes to the empty
\* string, an author that is present gives no last name, a year that is
\* present is empty
NoUsableField(e) ==
    /\ Has(e, "title") => Normalized(e["title"]) = <<>>
    /\ Has(e, "author") => ExpectedLastName(FirstAuthor(e["author"])) = <<>>
    /\ Has(e, "year") => e["year"] = <<>>

\* C7 (as stated): build_search_query never raises, and a record with no
\* usable field (every field missing, empty or punctuation-only) yields the
\* empty query string.
C7_NoUsableFieldGivesEmptyQuery ==
    Built => /\ built # IndexError
             /\ NoUsableField(entry) => built = <<>>

\* C7 (amended): build_search_query never raises; a record missing every
\* field yields the empty string, and so does every record without a title
\* whose author is absent or gives no last name and whose year is absent or
\* empty; a record whose title is present, even an empty or punctuation-only
\* one, yields a query that starts with the quoted normalized title.
C7_QueryTotalAndEmptyOnlyWithoutTitle ==
    Built =>
        /\ built # IndexError
        /\ \A k \in 1..Len(built) : built[k] # "IndexError"
        /\ DOMAIN entry \cap {"title", "author", "year"} = {} => built = <<>>
        /\ built = <<>> <=>
              /\ ~Has(entry, "title")
              /\ Has(entry, "author") => ExpectedLastName(FirstAuthor(entry["author"])) = <<>>
              /\ Has(entry, "year") => entry["year"] = <<>>
        /\ Has(entry, "title") => Len(built) >= 2 /\ built[1] = "\""

\* C7 witness: a title made of punctuation only, no other field: the query
\* is the pair of quotes; and the record without any field was called too.
C7_Witness ==
    /\ Built
    /\ Has(entry, "title") /\ entry["title"] = <<"-">>
    /\ ~Has(entry, "author") /\ ~Has(entry, "year")
    /\ built = <<"\"", "\"">>

\* C8: the query is the single-space join, in this order, of the quoted
\* normalized title, author:"<last name>" and the raw year; the last name
\* comes from the first author only, the trimmed text before its first comma
\* or else its final word; the examples of the spec give the stated queries.
C8_QueryFormat ==
    /\ Built => built = Join(<<" ">>, ExpectedParts(entry))
    /\ BuiltFor(EntryOf(Absent, Attention, VaswaniEtAl, Y2017)) => built = AttentionQuery
    /\ BuiltFor(EntryOf(Absent, Absent, SmithJohn, Absent))
          => built = <<"a", "u", "t", "h", "o", "r", ":">> \o Quoted(Smith)
    /\ BuiltFor(EntryOf(Absent, Absent, JohnSmith, Absent))
          => built = <<"a", "u", "t", "h", "o", "r", ":">> \o Quoted(Smith)
    /\ BuiltFor(EntryOf(Absent, Absent, ABC, Absent))
          => built = <<"a", "u", "t", "h", "o", "r", ":">> \o Quoted(<<"A">>)

\* C8 witness: the end-to-end example of the spec has been built.
C8_Witness ==
    /\ BuiltFor(EntryOf(Absent, Attention, VaswaniEtAl, Y2017))
    /\ built = AttentionQuery

----------------------------------------------------------------------------
(* Statements about one run of check_bibtex_file *)

\* the query the spec describes for each entry of a file
FileQueries == [e \in FileEntries |-> Join(<<" ">>, ExpectedParts(e))]

\* the result at position k describes the entry at position k
BelongsTo(r, e, k) ==
    /\ r.entry_id = IF "ID" \in DOMAIN e THEN e["ID"]
                    ELSE <<"e", "n", "t", "r", "y", "_">> \o <<ToString(k)>>
    /\ r.title = IF "title" \in DOMAIN e THEN e["title"] ELSE NoTitle
    /\ r.query = FileQueries[e]

InLoopBody == pc \in {"build", "sleep", "get", "classify", "append"}

\* C1 (as stated): whatever the lookups of a run give, the run of a loaded
\* file ends with one result per entry, the k-th result for the k-th entry;
\* no lookup outcome ends the loop early or skips an entry.
C1_OneResultPerEntryInOrder ==
    /\ Len(results) <= Len(entries)
    /\ \A k \in 1..Len(results) : BelongsTo(results[k], entries[k], k)
    /\ InLoopBody => Len(results) = i - 1
    /\ pc = "status" => Len(results) = i
    /\ (loaded /\ pc \notin {"loop", "status"} /\ ~InLoopBody)
          => Len(results) = Len(entries)

ResultConsistent(r) ==
    /\ r.found <=> (r.success /\ r.num_results > 0)
    /\ ~r.success => (r.num_results = 0 /\ ~r.found)

\* C2: in every result ever appended, found holds exactly when success holds
\* and num_results > 0, and a failed result has num_results 0 and found
\* false; a result is never changed once it is in the list.
C2_ResultsConsistentAndFrozen ==
    /\ [](\A k \in 1..Len(results) : ResultConsistent(results[k]))
    /\ [][\A k \in 1..Len(results) : Len(results') >= k /\ results'[k] = results[k]]_vars

\* C2 witness: a found result, then a failed one, both in the list.
C2_Witness ==
    /\ Len(results) = 2
    /\ results[1].found /\ results[1].num_results > 0
    /\ ~results[2].success

\* C3 (as stated): no failure of a step of the loop body (the progress
\* output included) leaves check_bibtex_file and ends the run.
C3_NoFailureLeavesTheLoop == pc # "raised"

InFlight == {k \in 1..Len(entries) : gets[k] > 0 /\ Len(results) < k}

\* C4: for every entry at most one delay and one request; a request only
\* after the completed delay of the same entry; nothing for an entry before
\* the result of the one before it is in the list; at most one lookup in
\* flight; every result that stems from a request had exactly one delay.
C4_OneDelayBeforeEachRequest ==
    /\ \A k \in 1..Len(entries) :
        /\ delays[k] <= 1 /\ gets[k] <= delays[k]
        /\ k > i => (delays[k] = 0 /\ gets[k] = 0)
        /\ delays[k] > 0 => Len(results) >= k - 1
        /\ (k <= Len(results) /\ results[k].error # "Error: sleep length must be non-negative")
              => (delays[k] = 1 /\ gets[k] = 1)
        /\ (k <= Len(results) /\ results[k].error = "Error: sleep length must be non-negative")
              => (delays[k] = 0 /\ gets[k] = 0)
    /\ Cardinality(InFlight) <= 1
    /\ pc = "classify" => InFlight = {i} /\ delays[i] = 1

\* C4 witness: the request for the second entry is in flight, after one
\* delay each and with the first result in the list.
C4_Witness ==
    /\ pc = "classify" /\ i = 2
    /\ delays = <<1, 1>> /\ gets = <<1, 1>>
    /\ Len(results) = 1

\* the number of result blocks of a body: the primary marker, or the
\* secondary one when the primary matches nothing
Blocks(content) == IF content.primary > 0 THEN content.primary ELSE content.secondary

Answered == pc = "append" /\ response # NoResponse

\* C5 (as stated): status 200 and K >= 1 result blocks give (true, K, ""),
\* whatever else the body contains.
C5_BlocksAlwaysCounted ==
    (Answered /\ response.status_code = 200 /\ Blocks(response.content) >= 1)
        => ret = Returned(TRUE, Blocks(response.content), "")

\* C5 (amended): status 200 and K >= 1 result blocks give (true, K, "")
\* when no div of the body holds the "did not match any articles" phrase;
\* when one does, the result is (true, 0, "") whatever K is.
C5_BlocksCountedUnlessNoResultsMarker ==
    (Answered /\ response.status_code = 200 /\ Blocks(response.content) >= 1)
        => ret = IF response.content.no_results THEN Returned(TRUE, 0, "")
                 ELSE Returned(TRUE, Blocks(response.content), "")

\* C5 witness: a body without the phrase whose K comes from the secondary
\* marker.
C5_Witness ==
    /\ Answered /\ response.status_code = 200
    /\ response.content.primary = 0 /\ response.content.secondary = 2
    /\ ~response.content.no_results
    /\ ret = Returned(TRUE, 2, "")

\* C6: a failed lookup returns success = false and num_results = 0; status
\* 429 gives "Rate limited ..." and never "HTTP 429", any other status but
\* 200 gives "HTTP <code>", a transport exception "Network error: <detail>";
\* the body plays no part.
C6_FailedLookupTable ==
    pc = "append" =>
        /\ ~ret.success => ret.num_results = 0
        /\ response.status_code = 429
              => /\ ret = Returned(FALSE, 0, "Rate limited by Google Scholar")
                 /\ ret.error_msg # "HTTP 429"
        /\ response.status_code \in Statuses \ {200, 429}
              => ret = Returned(FALSE, 0, "HTTP " \o ToString(response.status_code))
        /\ (response = NoResponse /\ gets[i] = 1)
              => \E d \in TransportFailures :
                    ret = Returned(FALSE, 0, "Network error: " \o d)

\* C6 witness: status 429 with a body full of result blocks.
C6_Witness ==
    /\ pc = "append" /\ response.status_code = 429
    /\ response.content.primary >= 1
    /\ ~ret.success

\* C9: the counts of the summary are non-negative and partition the
\* returned results: errors counts success = false, found counts found,
\* not-found = total - found - errors counts success with no result block.
C9_SummaryPartitions ==
    pc = "done" =>
        /\ summary.total = Len(results)
        /\ summary.errors = Cardinality({k \in 1..Len(results) : ~results[k].success})
        /\ summary.found = Cardinality({k \in 1..Len(results) : results[k].found})
        /\ summary.not_found = Cardinality({k \in 1..Len(results) :
                                    results[k].success /\ results[k].num_results = 0})
        /\ summary.found >= 0 /\ summary.errors >= 0 /\ summary.not_found >= 0
        /\ summary.total = summary.found + summary.not_found + summary.errors
        /\ \A k \in 1..Len(results) : ~(results[k].found /\ ~results[k].success)

\* C9 witness: a summary with one error and one entry not found.
C9_Witness ==
    /\ pc = "done"
    /\ summary.total = 2 /\ summary.errors = 1 /\ summary.not_found = 1

====
